---- MODULE Spec2Model ----
(***************************************************************************)
(* Model of Webcam_Capture_Thread (src/src/PhysioKit2/utils/               *)
(* webcam_capture.py): the worker thread executing run(), and the observer *)
(* thread that writes the request flags, the final paths and the device    *)
(* handle, and calls stop().  Every access to a field shared between the   *)
(* two threads is one step, so the threads interleave as the code allows.  *)
(* QThread.terminate() is taken to end the worker at once.  The field cap  *)
(* holds the state of the handle object it references: every use in the    *)
(* code goes through self.cap.                                             *)
(* Time inside the recording loop is counted in integer ticks.  A file     *)
(* holds what has reached the disk: the rows of the index go through the   *)
(* buffer of the file object, and a move that fails may have copied.       *)
(***************************************************************************)
EXTENDS Integers, Sequences, FiniteSets, TLC

(* ------------------------------ bounds --------------------------------- *)
\* Spec and SpecNormal: begin-requests the worker consumes, successful device
\* reads per session, completed calls of stop()
MaxBegins == 2
MaxFrames == 2
MaxStops == 1
\* SpecForced: one session interrupted by stop()
ForcedBegins == 1
ForcedFrames == 1
ForcedStops == 1
\* SpecRepeat: stop() called again after it has completed
RepeatBegins == 1
RepeatFrames == 0
RepeatStops == 2
\* SpecSession: one session without stop()
SessionBegins == 1
SessionFrames == 2
\* SpecSequence: sessions one after the other without stop()
SeqBegins == 2
SeqFrames == 0
\* SpecLongSession: the runs of SpecSession, and those of a session that has
\* already recorded LongStart frames with timestamps of the short form and
\* records up to LongMore further ones
LongStart == 330
LongMore == 2
\* SpecPacing: one session without stop(); the work of one loop iteration takes
\* 0..PacingWork ticks and the frame period is PacingPeriod ticks
PacingBegins == 1
PacingFrames == 1
PacingWork == 3
PacingPeriod == 2

(* ------------------------------ values --------------------------------- *)
None == "None"
OpenHandle == "open"
ClosedHandle == "closed"

EmptyPath == [kind |-> "empty", id |-> 0]
FinalVideoPaths == {[kind |-> "final_avi", id |-> 1]}
FinalTsPaths == {[kind |-> "final_csv", id |-> 1]}
TempVideoPath(base) == [kind |-> "temp_avi", id |-> base]
TempTimestampsPath(base) == [kind |-> "temp_csv", id |-> base]
\* one working-file name per distinct second in which a session can start
TempPaths == {TempVideoPath(t) : t \in 0..(MaxBegins - 1)} \cup {TempTimestampsPath(t) : t \in 0..(MaxBegins - 1)}
FinalPaths == FinalVideoPaths \cup FinalTsPaths
Paths == TempPaths \cup FinalPaths

NoFile == [kind |-> "none", sess |-> 0, frames |-> 0, rows |-> <<>>]
NewVideo(s) == [kind |-> "avi", sess |-> s, frames |-> 0, rows |-> <<>>]
NewCsv(s) == [kind |-> "csv", sess |-> s, frames |-> 0, rows |-> <<>>]
\* line 87: the header row; the timestamp column of a row is an opaque text
HeaderRow == [kind |-> "header", frame_number |-> 0]
ClosedTsFile == [path |-> EmptyPath, buf |-> <<>>, bytes |-> 0]

\* fields of the object (lines 28-39): stop_flag .. temp_timestamps_path
\* locals of run(): temp_base, writer (path of the open video writer),
\*   ts_file (path of the open index file, the rows its text buffer holds and
\*   their size in bytes), frame_number,
\*   elapsed (time.perf_counter() - loop_start inside a loop iteration, in ticks)
\* environment: fs (path -> file content), clock, statuses (the emitted texts)
\* threads: wpc (line run() is at), wstate (running, finished, terminated by
\*   stop(), dead by an exception), opc (line stop() is at, or main)
\* history: sess (begin-requests consumed), okReads (successful reads of the
\*   session), moved / hadPath (per artifact: shutil.move has returned, final
\*   path seen at the check), setPhase (per final-path field: not assigned since cleared,
\*   assigned during the recording loop, assigned otherwise), forced (sessions
\*   recording when stop() was called), rmFailed (paths whose deletion failed),
\*   stopsDone (stop() calls that returned), lateReads (device reads of the
\*   recording loop made since the end-request was last set), sessHandle (the
\*   handle object the session started with is still the one cap references,
\*   or set_capture has replaced it in cap; none once it is released), endPhase (when the
\*   pending end-request was set: with the worker idle, inside a session, or
\*   by stop()), slept (the pacing sleep of the iteration just completed),
\*   lastOverrun (the iteration before the current one took longer than the
\*   period), limits (the bounds of the run)
VARIABLES
  stop_flag, start_recording, stop_recording, is_recording, cap,
  final_video_path, final_timestamps_path,
  temp_video_path, temp_timestamps_path,
  temp_base, writer, ts_file, frame_number, elapsed,
  fs, clock, statuses,
  wpc, wstate, opc,
  sess, okReads, moved, hadPath, setPhase, forced, rmFailed, stopsDone,
  lateReads, sessHandle, endPhase, slept, lastOverrun, limits

vars == <<stop_flag, start_recording, stop_recording, is_recording, cap,
          final_video_path, final_timestamps_path,
          temp_video_path, temp_timestamps_path,
          temp_base, writer, ts_file, frame_number, elapsed,
          fs, clock, statuses, wpc, wstate, opc,
          sess, okReads, moved, hadPath, setPhase, forced, rmFailed, stopsDone,
          lateReads, sessHandle, endPhase, slept, lastOverrun, limits>>

(* ------------------------- pure helpers -------------------------------- *)
\* line 73: datetime.now() at one-second resolution.  clock numbers the distinct
\* seconds in which sessions started: a session starts in the same second as
\* the session before it, or in a later one.
Now(c, prev) == IF prev = EmptyPath THEN {c} ELSE {c, c + 1}

\* line 67: self.cap is None or not self.cap.isOpened()
DeviceUnavailable(c) == c = None \/ c # OpenHandle

\* variant of NextFrameNumber: the increment placed outside `if ret`
NextFrameNumberAlways(r, fn) == fn + 1
\* lines 98-102: frame_number is incremented only after a successful read
NextFrameNumber(r, fn) == IF r THEN fn + 1 ELSE fn

\* line 101: ts_writer.writerow([frame_number, timestamp])
AppendRow(buf, fn) == Append(buf, [kind |-> "row", frame_number |-> fn])

\* line 85: open(..., 'w', newline='') returns a text file that collects what is
\* written until ChunkSize bytes are pending; the binary layer below it holds
\* one file-system block, less than a chunk, and passes a chunk on to the disk
ChunkSize == 8192

\* line 87: "frame_number,timestamp" and the line terminator "\r\n" of csv.writer
HeaderBytes == 12 + 1 + 9 + 2

\* line 99: datetime.now().isoformat() is "YYYY-MM-DDTHH:MM:SS.ffffff", and
\* "YYYY-MM-DDTHH:MM:SS" when the microsecond is 0
ShortTimestamp == 19
FullTimestamp == 26
TimestampLens == {ShortTimestamp, FullTimestamp}

\* the decimal digits of str(frame_number)
RECURSIVE Digits(_)
Digits(n) == IF n < 10 THEN 1 ELSE 1 + Digits(n \div 10)

\* line 101: the bytes of the row "<frame_number>,<timestamp>\r\n"
RowBytes(fn, tl) == Digits(fn) + 1 + tl + 2

\* line 101 on the text file tf whose file holds rows on disk, with a timestamp
\* of tl characters: rows pending that the new row would take beyond ChunkSize
\* are written out first, the row is appended, and everything pending is
\* written out once it amounts to ChunkSize
WriteRow(tf, rows, fn, tl) ==
  LET b == RowBytes(fn, tl)
      pre == tf.bytes + b > ChunkSize
      rows1 == IF pre THEN rows \o tf.buf ELSE rows
      buf1 == AppendRow(IF pre THEN <<>> ELSE tf.buf, fn)
      bytes1 == (IF pre THEN 0 ELSE tf.bytes) + b
      post == bytes1 >= ChunkSize
  IN [rows |-> IF post THEN rows1 \o buf1 ELSE rows1,
      tf |-> [path |-> tf.path,
              buf |-> IF post THEN <<>> ELSE buf1,
              bytes |-> IF post THEN 0 ELSE bytes1]]

\* line 100: writer.write(frame); frames counts the frames handed to the writer
WriteFrame(f, p) == [f EXCEPT ![p].frames = @ + 1]

\* variant of FlushRows: the file is moved without being closed
FlushRowsNone(f, tf) == f
\* line 117: ts_file.close() flushes the buffered rows to the file
FlushRows(f, tf) == IF tf.path = EmptyPath THEN f ELSE [f EXCEPT ![tf.path].rows = @ \o tf.buf]

\* lines 120, 122: shutil.move(src, dst) that returns
MoveFile(f, src, dst) == [f EXCEPT ![dst] = f[src], ![src] = NoFile]

\* what a copy of file that is cut short can hold: its first frames or rows
CopyPrefixes(file) ==
  {[file EXCEPT !.frames = kf, !.rows = SubSeq(file.rows, 1, kr)] :
     kf \in 0..file.frames, kr \in 0..Len(file.rows)}

\* lines 120, 122: shutil.move(src, dst) that does not return.  When os.rename
\* fails shutil.move copies src to dst and then unlinks src: nothing has
\* changed, or dst holds a part or the whole of src, and src is still there
FailedMoveOutcomes(f, src, dst) ==
  {f} \cup {[f EXCEPT ![dst] = c] : c \in CopyPrefixes(f[src])}

\* variant of RemoveFile: the deletion is left out
RemoveFileNoop(f, p) == f
\* line 55: os.remove(f)
RemoveFile(f, p) == [f EXCEPT ![p] = NoFile]

\* variant of SavedStatus: the text of line 92 emitted at lines 124-125
SavedStatusAsStarted(fn, s) == [kind |-> "started", n |-> 0, sess |-> s]
\* lines 124-125: "Webcam recording saved ({frame_number} frames)."
SavedStatus(fn, s) == [kind |-> "saved", n |-> fn, sess |-> s]
\* line 92: "Webcam recording started."
StartedStatus(s) == [kind |-> "started", n |-> 0, sess |-> s]
\* lines 68-69: "Webcam not available. Video will not be recorded."
UnavailableStatus(s) == [kind |-> "unavailable", n |-> 0, sess |-> s]

\* variant of Terminate: the thread is left running
TerminateNoop(ws) == ws
\* line 51: self.terminate() ends a thread that is running
Terminate(ws) == IF ws = "running" THEN "terminated" ELSE ws

\* lines 127-128: the final-path fields are cleared
ClearedPath(p) == EmptyPath

\* line 90: frame_interval = 1.0 / self.target_fps, in ticks
frame_interval == PacingPeriod

\* variant of SleepTime: the full period whatever the iteration took
SleepTimeFixed(period, e) == period
\* lines 109-110: sleep_time = frame_interval - elapsed
SleepTime(period, e) == period - e

\* lines 111-112: if sleep_time > 0: time.sleep(sleep_time)
Slept(st) == IF st > 0 THEN st ELSE 0

\* the session is in its recording loop and no end-request or stop is pending
InRec ==
  /\ wstate = "running"
  /\ wpc \in {"w94", "w97", "w104"}
  /\ is_recording /\ ~stop_recording /\ ~stop_flag

\* the worker is between sessions: at the loop head or in the idle sleep
IdleTick == wpc \in {"w61", "w63"}

(* ------------------------------- Init ---------------------------------- *)
\* lines 21-39: __init__; the thread is started and run() is at its loop head.
\* lim bounds what the observer, the device and the clock do in the run: the
\* begin-requests consumed, the frames a session gets once it holds `first` of
\* them, the calls of stop(), the ticks an iteration's work takes and the
\* lengths of the timestamps.
InitWith(lim) ==
  /\ limits = lim
  /\ stop_flag = FALSE /\ start_recording = FALSE
  /\ stop_recording = FALSE /\ is_recording = FALSE
  /\ cap = None
  /\ final_video_path = EmptyPath /\ final_timestamps_path = EmptyPath
  /\ temp_video_path = EmptyPath /\ temp_timestamps_path = EmptyPath
  /\ temp_base = 0 /\ writer = EmptyPath /\ ts_file = ClosedTsFile
  /\ frame_number = 0 /\ elapsed = 0
  /\ fs = [p \in Paths |-> NoFile]
  /\ clock = 0 /\ statuses = <<>>
  /\ wpc = "w61" /\ wstate = "running" /\ opc = "main"
  /\ sess = 0 /\ okReads = 0
  /\ moved = [video |-> FALSE, ts |-> FALSE]
  /\ hadPath = [video |-> FALSE, ts |-> FALSE]
  /\ setPhase = [video |-> "none", ts |-> "none"]
  /\ forced = {} /\ rmFailed = {} /\ stopsDone = 0
  /\ lateReads = 0 /\ sessHandle = "none" /\ endPhase = "none"
  /\ slept = 0 /\ lastOverrun = FALSE

Init == InitWith([begins |-> MaxBegins, frames |-> MaxFrames, stops |-> MaxStops, work |-> 0, first |-> 0,
    stamps |-> TimestampLens])
InitForced == InitWith([begins |-> ForcedBegins, frames |-> ForcedFrames, stops |-> ForcedStops, work |-> 0, first |-> 0,
    stamps |-> {FullTimestamp}])
InitSession == InitWith([begins |-> SessionBegins, frames |-> SessionFrames, stops |-> 0, work |-> 0, first |-> 0,
    stamps |-> TimestampLens])
InitSequence == InitWith([begins |-> SeqBegins, frames |-> SeqFrames, stops |-> 0, work |-> 0, first |-> 0,
    stamps |-> {FullTimestamp}])
InitPacing == InitWith([begins |-> PacingBegins, frames |-> PacingFrames, stops |-> 0, work |-> PacingWork, first |-> 0,
    stamps |-> {FullTimestamp}])
InitRepeat == InitWith([begins |-> RepeatBegins, frames |-> RepeatFrames, stops |-> RepeatStops, work |-> 0, first |-> 0,
    stamps |-> {FullTimestamp}])

\* the bytes of the rows lo .. hi - 1 with short timestamps
RECURSIVE ShortRowsBytes(_, _)
ShortRowsBytes(lo, hi) ==
  IF hi <= lo THEN 0
  ELSE IF hi = lo + 1 THEN RowBytes(lo, ShortTimestamp)
  ELSE LET m == (lo + hi) \div 2 IN ShortRowsBytes(lo, m) + ShortRowsBytes(m, hi)

\* the text file after the header and n rows with short timestamps that all
\* fit into one chunk: nothing has been written out
Recorded(path, n) ==
  [path |-> path,
   buf |-> [i \in 1..(n + 1) |-> IF i = 1 THEN HeaderRow
                                ELSE [kind |-> "row", frame_number |-> i - 2]],
   bytes |-> HeaderBytes + ShortRowsBytes(0, n)]

\* lines 21-39 and 63-102: the observer has supplied an open handle and set the
\* begin-request, and the session it started has made n successful reads and
\* is at the head of its loop, each iteration having taken no time and slept
\* the whole period (lines 109-112).  The run has no further begin-request and
\* the device gives at most `more` further frames.
InitRecording(n, more) ==
  /\ limits = [begins |-> 1, frames |-> n + more, stops |-> 0, work |-> 0, first |-> n,
               stamps |-> TimestampLens]
  /\ stop_flag = FALSE /\ start_recording = FALSE
  /\ stop_recording = FALSE /\ is_recording = TRUE
  /\ cap = OpenHandle
  /\ final_video_path = EmptyPath /\ final_timestamps_path = EmptyPath
  /\ temp_video_path = TempVideoPath(0) /\ temp_timestamps_path = TempTimestampsPath(0)
  /\ temp_base = 0 /\ writer = TempVideoPath(0) /\ ts_file = Recorded(TempTimestampsPath(0), n)
  /\ ts_file.bytes < ChunkSize
  /\ frame_number = n /\ elapsed = 0
  /\ fs = [p \in Paths |->
            IF p = TempVideoPath(0) THEN [NewVideo(1) EXCEPT !.frames = n]
            ELSE IF p = TempTimestampsPath(0) THEN NewCsv(1)
            ELSE NoFile]
  /\ clock = 0 /\ statuses = <<StartedStatus(1)>>
  /\ wpc = "w94" /\ wstate = "running" /\ opc = "main"
  /\ sess = 1 /\ okReads = n
  /\ moved = [video |-> FALSE, ts |-> FALSE]
  /\ hadPath = [video |-> FALSE, ts |-> FALSE]
  /\ setPhase = [video |-> "none", ts |-> "none"]
  /\ forced = {} /\ rmFailed = {} /\ stopsDone = 0
  /\ lateReads = 0 /\ sessHandle = "held" /\ endPhase = "none"
  /\ slept = (IF n = 0 THEN 0 ELSE Slept(SleepTime(frame_interval, 0)))
  /\ lastOverrun = FALSE

InitLongSession == InitSession \/ InitRecording(LongStart, LongMore)

Running == wstate = "running"
AtMain == opc = "main"

(* --------------------------- worker: run() ----------------------------- *)

\* line 61: while not self.stop_flag; run() returns when the flag is set
W61 ==
  /\ Running /\ wpc = "w61"
  /\ IF stop_flag THEN wstate' = "finished" /\ wpc' = wpc
                  ELSE wstate' = wstate /\ wpc' = "w63"
  /\ UNCHANGED <<stop_flag, start_recording, stop_recording, is_recording, cap,
       final_video_path, final_timestamps_path, temp_video_path, temp_timestamps_path,
       temp_base, writer, ts_file, frame_number, elapsed, fs, clock, statuses, opc, sess,
       okReads, moved, hadPath, setPhase, forced, rmFailed, stopsDone, lateReads, sessHandle,
       endPhase, slept, lastOverrun, limits>>

\* variant of W63: the idle branch also clears the end-request
W63ClearingEnd ==
  /\ Running /\ wpc = "w63"
  /\ wpc' = IF start_recording THEN "w64" ELSE "w61"
  /\ stop_recording' = IF start_recording THEN stop_recording ELSE FALSE
  /\ UNCHANGED <<stop_flag, start_recording, is_recording, cap, final_video_path,
       final_timestamps_path, temp_video_path, temp_timestamps_path, temp_base, writer,
       ts_file, frame_number, elapsed, fs, clock, statuses, wstate, opc, sess, okReads, moved,
       hadPath, setPhase, forced, rmFailed, stopsDone, lateReads, sessHandle, endPhase, slept,
       lastOverrun, limits>>

\* lines 63, 130-131: if self.start_recording ... else: time.sleep(0.1)
W63 ==
  /\ Running /\ wpc = "w63"
  /\ wpc' = IF start_recording THEN "w64" ELSE "w61"
  /\ UNCHANGED <<stop_flag, start_recording, stop_recording, is_recording, cap,
       final_video_path, final_timestamps_path, temp_video_path, temp_timestamps_path,
       temp_base, writer, ts_file, frame_number, elapsed, fs, clock, statuses, wstate, opc,
       sess, okReads, moved, hadPath, setPhase, forced, rmFailed, stopsDone, lateReads,
       sessHandle, endPhase, slept, lastOverrun, limits>>

\* line 64: self.start_recording = False
W64 ==
  /\ Running /\ wpc = "w64"
  /\ start_recording' = FALSE
  /\ sess' = sess + 1
  /\ okReads' = 0
  /\ moved' = [video |-> FALSE, ts |-> FALSE]
  /\ hadPath' = [video |-> FALSE, ts |-> FALSE]
  /\ wpc' = "w65"
  /\ UNCHANGED <<stop_flag, stop_recording, is_recording, cap, final_video_path,
       final_timestamps_path, temp_video_path, temp_timestamps_path, temp_base, writer,
       ts_file, frame_number, elapsed, fs, clock, statuses, wstate, opc, setPhase, forced,
       rmFailed, stopsDone, lateReads, sessHandle, endPhase, slept, lastOverrun, limits>>

\* line 65: self.is_recording = True
W65 ==
  /\ Running /\ wpc = "w65"
  /\ is_recording' = TRUE
  /\ wpc' = "w67"
  /\ UNCHANGED <<stop_flag, start_recording, stop_recording, cap, final_video_path,
       final_timestamps_path, temp_video_path, temp_timestamps_path, temp_base, writer,
       ts_file, frame_number, elapsed, fs, clock, statuses, wstate, opc, sess, okReads, moved,
       hadPath, setPhase, forced, rmFailed, stopsDone, lateReads, sessHandle, endPhase, slept,
       lastOverrun, limits>>

\* line 67: if self.cap is None or not self.cap.isOpened()
W67 ==
  /\ Running /\ wpc = "w67"
  /\ sessHandle' = IF DeviceUnavailable(cap) THEN sessHandle ELSE "held"
  /\ wpc' = IF DeviceUnavailable(cap) THEN "w68" ELSE "w73"
  /\ UNCHANGED <<stop_flag, start_recording, stop_recording, is_recording, cap,
       final_video_path, final_timestamps_path, temp_video_path, temp_timestamps_path,
       temp_base, writer, ts_file, frame_number, elapsed, fs, clock, statuses, wstate, opc,
       sess, okReads, moved, hadPath, setPhase, forced, rmFailed, stopsDone, lateReads,
       endPhase, slept, lastOverrun, limits>>

\* lines 68-69: emit "Webcam not available. Video will not be recorded."
W68 ==
  /\ Running /\ wpc = "w68"
  /\ statuses' = Append(statuses, UnavailableStatus(sess))
  /\ wpc' = "w70"
  /\ UNCHANGED <<stop_flag, start_recording, stop_recording, is_recording, cap,
       final_video_path, final_timestamps_path, temp_video_path, temp_timestamps_path,
       temp_base, writer, ts_file, frame_number, elapsed, fs, clock, wstate, opc, sess,
       okReads, moved, hadPath, setPhase, forced, rmFailed, stopsDone, lateReads, sessHandle,
       endPhase, slept, lastOverrun, limits>>

\* variant of W70: the failure branch also clears the final paths
W70Clearing ==
  /\ Running /\ wpc = "w70"
  /\ is_recording' = FALSE
  /\ final_video_path' = EmptyPath
  /\ final_timestamps_path' = EmptyPath
  /\ wpc' = "w61"
  /\ UNCHANGED <<stop_flag, start_recording, stop_recording, cap, temp_video_path,
       temp_timestamps_path, temp_base, writer, ts_file, frame_number, elapsed, fs, clock,
       statuses, wstate, opc, sess, okReads, moved, hadPath, setPhase, forced, rmFailed,
       stopsDone, lateReads, sessHandle, endPhase, slept, lastOverrun, limits>>

\* lines 70-71: self.is_recording = False; continue
W70 ==
  /\ Running /\ wpc = "w70"
  /\ is_recording' = FALSE
  /\ wpc' = "w61"
  /\ UNCHANGED <<stop_flag, start_recording, stop_recording, cap, final_video_path,
       final_timestamps_path, temp_video_path, temp_timestamps_path, temp_base, writer,
       ts_file, frame_number, elapsed, fs, clock, statuses, wstate, opc, sess, okReads, moved,
       hadPath, setPhase, forced, rmFailed, stopsDone, lateReads, sessHandle, endPhase, slept,
       lastOverrun, limits>>

\* lines 73-74: temp_base from datetime.now(); self.temp_video_path = temp_base + ".avi"
W73 ==
  /\ Running /\ wpc = "w73"
  /\ \E t \in Now(clock, temp_video_path) :
       /\ clock' = t
       /\ temp_base' = t
       /\ temp_video_path' = TempVideoPath(t)
  /\ wpc' = "w75"
  /\ UNCHANGED <<stop_flag, start_recording, stop_recording, is_recording, cap,
       final_video_path, final_timestamps_path, temp_timestamps_path, writer, ts_file,
       frame_number, elapsed, fs, statuses, wstate, opc, sess, okReads, moved, hadPath,
       setPhase, forced, rmFailed, stopsDone, lateReads, sessHandle, endPhase, slept,
       lastOverrun, limits>>

\* line 75: self.temp_timestamps_path = temp_base + "_timestamps.csv"
W75 ==
  /\ Running /\ wpc = "w75"
  /\ temp_timestamps_path' = TempTimestampsPath(temp_base)
  /\ wpc' = "w81"
  /\ UNCHANGED <<stop_flag, start_recording, stop_recording, is_recording, cap,
       final_video_path, final_timestamps_path, temp_video_path, temp_base, writer, ts_file,
       frame_number, elapsed, fs, clock, statuses, wstate, opc, sess, okReads, moved, hadPath,
       setPhase, forced, rmFailed, stopsDone, lateReads, sessHandle, endPhase, slept,
       lastOverrun, limits>>

\* lines 77-83: writer = cv2.VideoWriter(self.temp_video_path, ...) creates the file
W81 ==
  /\ Running /\ wpc = "w81"
  /\ writer' = temp_video_path
  /\ fs' = [fs EXCEPT ![temp_video_path] = NewVideo(sess)]
  /\ wpc' = "w85"
  /\ UNCHANGED <<stop_flag, start_recording, stop_recording, is_recording, cap,
       final_video_path, final_timestamps_path, temp_video_path, temp_timestamps_path,
       temp_base, ts_file, frame_number, elapsed, clock, statuses, wstate, opc, sess, okReads,
       moved, hadPath, setPhase, forced, rmFailed, stopsDone, lateReads, sessHandle, endPhase,
       slept, lastOverrun, limits>>

\* lines 85-90: open(self.temp_timestamps_path, 'w') creates or truncates the file;
\* the header row goes to the file object's buffer; frame_number = 0
W85 ==
  /\ Running /\ wpc = "w85"
  /\ ts_file' = [path |-> temp_timestamps_path, buf |-> <<HeaderRow>>, bytes |-> HeaderBytes]
  /\ fs' = [fs EXCEPT ![temp_timestamps_path] = NewCsv(sess)]
  /\ frame_number' = 0
  /\ wpc' = "w92"
  /\ UNCHANGED <<stop_flag, start_recording, stop_recording, is_recording, cap,
       final_video_path, final_timestamps_path, temp_video_path, temp_timestamps_path,
       temp_base, writer, elapsed, clock, statuses, wstate, opc, sess, okReads, moved, hadPath,
       setPhase, forced, rmFailed, stopsDone, lateReads, sessHandle, endPhase, slept,
       lastOverrun, limits>>

\* line 92: emit "Webcam recording started."
W92 ==
  /\ Running /\ wpc = "w92"
  /\ statuses' = Append(statuses, StartedStatus(sess))
  /\ wpc' = "w94"
  /\ UNCHANGED <<stop_flag, start_recording, stop_recording, is_recording, cap,
       final_video_path, final_timestamps_path, temp_video_path, temp_timestamps_path,
       temp_base, writer, ts_file, frame_number, elapsed, fs, clock, wstate, opc, sess,
       okReads, moved, hadPath, setPhase, forced, rmFailed, stopsDone, lateReads, sessHandle,
       endPhase, slept, lastOverrun, limits>>

\* lines 94-95: while self.is_recording and not self.stop_flag;
\* loop_start = time.perf_counter()
W94 ==
  /\ Running /\ wpc = "w94"
  /\ wpc' = IF is_recording /\ ~stop_flag THEN "w97" ELSE "w114"
  /\ lateReads' = IF is_recording /\ ~stop_flag THEN lateReads ELSE 0
  /\ elapsed' = 0
  /\ slept' = 0
  /\ lastOverrun' = (is_recording /\ ~stop_flag /\ elapsed > frame_interval)
  /\ UNCHANGED <<stop_flag, start_recording, stop_recording, is_recording, cap,
       final_video_path, final_timestamps_path, temp_video_path, temp_timestamps_path,
       temp_base, writer, ts_file, frame_number, fs, clock, statuses, wstate, opc, sess,
       okReads, moved, hadPath, setPhase, forced, rmFailed, stopsDone, sessHandle, endPhase,
       limits>>

\* lines 97-102: ret, frame = self.cap.read(); on success write the frame,
\* write the row with the timestamp of that moment and increment frame_number.
\* A handle that is not open yields no frame.  The read and the writes take
\* some time.
W97 ==
  /\ Running /\ wpc = "w97"
  /\ \E ret \in (IF cap = OpenHandle /\ limits.first <= okReads /\ okReads < limits.frames
                 THEN BOOLEAN ELSE {FALSE}) :
       /\ IF ret
          THEN \E tl \in limits.stamps :
                 LET w == WriteRow(ts_file, fs[ts_file.path].rows, frame_number, tl) IN
                 /\ fs' = [WriteFrame(fs, writer) EXCEPT ![ts_file.path].rows = w.rows]
                 /\ ts_file' = w.tf
          ELSE fs' = fs /\ ts_file' = ts_file
       /\ frame_number' = NextFrameNumber(ret, frame_number)
       /\ okReads' = IF ret THEN okReads + 1 ELSE okReads
  /\ \E d \in 0..limits.work : elapsed' = elapsed + d
  /\ lateReads' = IF stop_recording THEN lateReads + 1 ELSE lateReads
  /\ wpc' = "w104"
  /\ UNCHANGED <<stop_flag, start_recording, stop_recording, is_recording, cap,
       final_video_path, final_timestamps_path, temp_video_path, temp_timestamps_path,
       temp_base, writer, clock, statuses, wstate, opc, sess, moved, hadPath, setPhase, forced,
       rmFailed, stopsDone, sessHandle, endPhase, slept, lastOverrun, limits>>

\* lines 104, 109-112: if self.stop_recording ... else sleep for what is left
\* of the period and loop
W104 ==
  /\ Running /\ wpc = "w104"
  /\ IF stop_recording
     THEN /\ wpc' = "w105"
          /\ slept' = 0 /\ elapsed' = 0 /\ lastOverrun' = FALSE /\ lateReads' = 0
     ELSE /\ wpc' = "w94"
          /\ slept' = Slept(SleepTime(frame_interval, elapsed))
          /\ UNCHANGED <<elapsed, lastOverrun, lateReads>>
  /\ UNCHANGED <<stop_flag, start_recording, stop_recording, is_recording, cap,
       final_video_path, final_timestamps_path, temp_video_path, temp_timestamps_path,
       temp_base, writer, ts_file, frame_number, fs, clock, statuses, wstate, opc, sess,
       okReads, moved, hadPath, setPhase, forced, rmFailed, stopsDone, sessHandle, endPhase,
       limits>>

\* line 105: self.is_recording = False
W105 ==
  /\ Running /\ wpc = "w105"
  /\ is_recording' = FALSE
  /\ wpc' = "w106"
  /\ UNCHANGED <<stop_flag, start_recording, stop_recording, cap, final_video_path,
       final_timestamps_path, temp_video_path, temp_timestamps_path, temp_base, writer,
       ts_file, frame_number, elapsed, fs, clock, statuses, wstate, opc, sess, okReads, moved,
       hadPath, setPhase, forced, rmFailed, stopsDone, lateReads, sessHandle, endPhase, slept,
       lastOverrun, limits>>

\* lines 106-107: self.stop_recording = False; break
W106 ==
  /\ Running /\ wpc = "w106"
  /\ stop_recording' = FALSE
  /\ endPhase' = "none"
  /\ wpc' = "w114"
  /\ UNCHANGED <<stop_flag, start_recording, is_recording, cap, final_video_path,
       final_timestamps_path, temp_video_path, temp_timestamps_path, temp_base, writer,
       ts_file, frame_number, elapsed, fs, clock, statuses, wstate, opc, sess, okReads, moved,
       hadPath, setPhase, forced, rmFailed, stopsDone, lateReads, sessHandle, slept,
       lastOverrun, limits>>

\* line 114: self.cap.release()
W114 ==
  /\ Running /\ wpc = "w114"
  /\ cap' = ClosedHandle
  /\ sessHandle' = "none"
  /\ wpc' = "w115"
  /\ UNCHANGED <<stop_flag, start_recording, stop_recording, is_recording, final_video_path,
       final_timestamps_path, temp_video_path, temp_timestamps_path, temp_base, writer,
       ts_file, frame_number, elapsed, fs, clock, statuses, wstate, opc, sess, okReads, moved,
       hadPath, setPhase, forced, rmFailed, stopsDone, lateReads, endPhase, slept, lastOverrun,
       limits>>

\* line 115: self.cap = None
W115 ==
  /\ Running /\ wpc = "w115"
  /\ cap' = None
  /\ wpc' = "w116"
  /\ UNCHANGED <<stop_flag, start_recording, stop_recording, is_recording, final_video_path,
       final_timestamps_path, temp_video_path, temp_timestamps_path, temp_base, writer,
       ts_file, frame_number, elapsed, fs, clock, statuses, wstate, opc, sess, okReads, moved,
       hadPath, setPhase, forced, rmFailed, stopsDone, lateReads, sessHandle, endPhase, slept,
       lastOverrun, limits>>

\* variant of W116: the writers of the session are left open
W116KeepOpen ==
  /\ Running /\ wpc = "w116"
  /\ wpc' = "w119"
  /\ UNCHANGED <<stop_flag, start_recording, stop_recording, is_recording, cap,
       final_video_path, final_timestamps_path, temp_video_path, temp_timestamps_path,
       temp_base, writer, ts_file, frame_number, elapsed, fs, clock, statuses, wstate, opc,
       sess, okReads, moved, hadPath, setPhase, forced, rmFailed, stopsDone, lateReads,
       sessHandle, endPhase, slept, lastOverrun, limits>>

\* lines 116-117: writer.release(); ts_file.close()
W116 ==
  /\ Running /\ wpc = "w116"
  /\ writer' = EmptyPath
  /\ fs' = FlushRows(fs, ts_file)
  /\ ts_file' = ClosedTsFile
  /\ wpc' = "w119"
  /\ UNCHANGED <<stop_flag, start_recording, stop_recording, is_recording, cap,
       final_video_path, final_timestamps_path, temp_video_path, temp_timestamps_path,
       temp_base, frame_number, elapsed, clock, statuses, wstate, opc, sess, okReads, moved,
       hadPath, setPhase, forced, rmFailed, stopsDone, lateReads, sessHandle, endPhase, slept,
       lastOverrun, limits>>

\* line 119: if self.final_video_path and os.path.exists(self.temp_video_path)
W119 ==
  /\ Running /\ wpc = "w119"
  /\ hadPath' = [hadPath EXCEPT !.video = final_video_path # EmptyPath]
  /\ wpc' = IF final_video_path # EmptyPath /\ fs[temp_video_path] # NoFile THEN "w120" ELSE "w121"
  /\ UNCHANGED <<stop_flag, start_recording, stop_recording, is_recording, cap,
       final_video_path, final_timestamps_path, temp_video_path, temp_timestamps_path,
       temp_base, writer, ts_file, frame_number, elapsed, fs, clock, statuses, wstate, opc,
       sess, okReads, moved, setPhase, forced, rmFailed, stopsDone, lateReads, sessHandle,
       endPhase, slept, lastOverrun, limits>>

\* line 120: shutil.move(self.temp_video_path, self.final_video_path); an
\* OSError is not caught in run() and ends the thread, with whatever the move
\* had done by then
W120 ==
  /\ Running /\ wpc = "w120"
  /\ \E ok \in BOOLEAN :
       IF ok
       THEN /\ fs' = MoveFile(fs, temp_video_path, final_video_path)
            /\ moved' = [moved EXCEPT !.video = TRUE]
            /\ wpc' = "w121" /\ wstate' = wstate
       ELSE /\ fs' \in FailedMoveOutcomes(fs, temp_video_path, final_video_path)
            /\ wstate' = "dead"
            /\ UNCHANGED <<moved, wpc>>
  /\ UNCHANGED <<stop_flag, start_recording, stop_recording, is_recording, cap,
       final_video_path, final_timestamps_path, temp_video_path, temp_timestamps_path,
       temp_base, writer, ts_file, frame_number, elapsed, clock, statuses, opc, sess, okReads,
       hadPath, setPhase, forced, rmFailed, stopsDone, lateReads, sessHandle, endPhase, slept,
       lastOverrun, limits>>

\* line 121: if self.final_timestamps_path and os.path.exists(self.temp_timestamps_path)
W121 ==
  /\ Running /\ wpc = "w121"
  /\ hadPath' = [hadPath EXCEPT !.ts = final_timestamps_path # EmptyPath]
  /\ wpc' = IF final_timestamps_path # EmptyPath /\ fs[temp_timestamps_path] # NoFile THEN "w122" ELSE "w124"
  /\ UNCHANGED <<stop_flag, start_recording, stop_recording, is_recording, cap,
       final_video_path, final_timestamps_path, temp_video_path, temp_timestamps_path,
       temp_base, writer, ts_file, frame_number, elapsed, fs, clock, statuses, wstate, opc,
       sess, okReads, moved, setPhase, forced, rmFailed, stopsDone, lateReads, sessHandle,
       endPhase, slept, lastOverrun, limits>>

\* line 122: shutil.move(self.temp_timestamps_path, self.final_timestamps_path),
\* as at line 120
W122 ==
  /\ Running /\ wpc = "w122"
  /\ \E ok \in BOOLEAN :
       IF ok
       THEN /\ fs' = MoveFile(fs, temp_timestamps_path, final_timestamps_path)
            /\ moved' = [moved EXCEPT !.ts = TRUE]
            /\ wpc' = "w124" /\ wstate' = wstate
       ELSE /\ fs' \in FailedMoveOutcomes(fs, temp_timestamps_path, final_timestamps_path)
            /\ wstate' = "dead"
            /\ UNCHANGED <<moved, wpc>>
  /\ UNCHANGED <<stop_flag, start_recording, stop_recording, is_recording, cap,
       final_video_path, final_timestamps_path, temp_video_path, temp_timestamps_path,
       temp_base, writer, ts_file, frame_number, elapsed, clock, statuses, opc, sess, okReads,
       hadPath, setPhase, forced, rmFailed, stopsDone, lateReads, sessHandle, endPhase, slept,
       lastOverrun, limits>>

\* lines 124-125: emit f"Webcam recording saved ({frame_number} frames)."
W124 ==
  /\ Running /\ wpc = "w124"
  /\ statuses' = Append(statuses, SavedStatus(frame_number, sess))
  /\ wpc' = "w127"
  /\ UNCHANGED <<stop_flag, start_recording, stop_recording, is_recording, cap,
       final_video_path, final_timestamps_path, temp_video_path, temp_timestamps_path,
       temp_base, writer, ts_file, frame_number, elapsed, fs, clock, wstate, opc, sess,
       okReads, moved, hadPath, setPhase, forced, rmFailed, stopsDone, lateReads, sessHandle,
       endPhase, slept, lastOverrun, limits>>

\* line 127: self.final_video_path = ""
W127 ==
  /\ Running /\ wpc = "w127"
  /\ final_video_path' = ClearedPath(final_video_path)
  /\ setPhase' = [setPhase EXCEPT !.video = "none"]
  /\ wpc' = "w128"
  /\ UNCHANGED <<stop_flag, start_recording, stop_recording, is_recording, cap,
       final_timestamps_path, temp_video_path, temp_timestamps_path, temp_base, writer,
       ts_file, frame_number, elapsed, fs, clock, statuses, wstate, opc, sess, okReads, moved,
       hadPath, forced, rmFailed, stopsDone, lateReads, sessHandle, endPhase, slept,
       lastOverrun, limits>>

\* line 128: self.final_timestamps_path = ""
W128 ==
  /\ Running /\ wpc = "w128"
  /\ final_timestamps_path' = ClearedPath(final_timestamps_path)
  /\ setPhase' = [setPhase EXCEPT !.ts = "none"]
  /\ wpc' = "w61"
  /\ UNCHANGED <<stop_flag, start_recording, stop_recording, is_recording, cap,
       final_video_path, temp_video_path, temp_timestamps_path, temp_base, writer, ts_file,
       frame_number, elapsed, fs, clock, statuses, wstate, opc, sess, okReads, moved, hadPath,
       forced, rmFailed, stopsDone, lateReads, sessHandle, endPhase, slept, lastOverrun,
       limits>>

(* ------------------- observer: requests and fields --------------------- *)

\* the observer sets the begin-request: start_recording = True (line 29 field)
SetStartRecording ==
  /\ AtMain /\ ~start_recording /\ sess < limits.begins
  /\ start_recording' = TRUE
  /\ UNCHANGED <<stop_flag, stop_recording, is_recording, cap, final_video_path,
       final_timestamps_path, temp_video_path, temp_timestamps_path, temp_base, writer,
       ts_file, frame_number, elapsed, fs, clock, statuses, wpc, wstate, opc, sess, okReads,
       moved, hadPath, setPhase, forced, rmFailed, stopsDone, lateReads, sessHandle, endPhase,
       slept, lastOverrun, limits>>

\* the observer sets the end-request: stop_recording = True (line 30 field)
SetStopRecording ==
  /\ AtMain /\ ~stop_recording
  /\ stop_recording' = TRUE
  /\ lateReads' = 0
  /\ endPhase' = IF IdleTick THEN "idle" ELSE "session"
  /\ UNCHANGED <<stop_flag, start_recording, is_recording, cap, final_video_path,
       final_timestamps_path, temp_video_path, temp_timestamps_path, temp_base, writer,
       ts_file, frame_number, elapsed, fs, clock, statuses, wpc, wstate, opc, sess, okReads,
       moved, hadPath, setPhase, forced, rmFailed, stopsDone, sessHandle, slept, lastOverrun,
       limits>>

\* the observer assigns final_video_path (line 35 field)
SetFinalVideoPath ==
  /\ AtMain
  /\ \E p \in FinalVideoPaths : final_video_path' = p
  /\ setPhase' = [setPhase EXCEPT !.video = IF InRec THEN "rec" ELSE "other"]
  /\ UNCHANGED <<stop_flag, start_recording, stop_recording, is_recording, cap,
       final_timestamps_path, temp_video_path, temp_timestamps_path, temp_base, writer,
       ts_file, frame_number, elapsed, fs, clock, statuses, wpc, wstate, opc, sess, okReads,
       moved, hadPath, forced, rmFailed, stopsDone, lateReads, sessHandle, endPhase, slept,
       lastOverrun, limits>>

\* the observer assigns final_timestamps_path (line 36 field)
SetFinalTimestampsPath ==
  /\ AtMain
  /\ \E p \in FinalTsPaths : final_timestamps_path' = p
  /\ setPhase' = [setPhase EXCEPT !.ts = IF InRec THEN "rec" ELSE "other"]
  /\ UNCHANGED <<stop_flag, start_recording, stop_recording, is_recording, cap,
       final_video_path, temp_video_path, temp_timestamps_path, temp_base, writer, ts_file,
       frame_number, elapsed, fs, clock, statuses, wpc, wstate, opc, sess, okReads, moved,
       hadPath, forced, rmFailed, stopsDone, lateReads, sessHandle, endPhase, slept,
       lastOverrun, limits>>

\* lines 41-43: set_capture(cap) with a handle the observer has just opened,
\* or one that failed to open
set_capture ==
  /\ AtMain
  /\ \E h \in {OpenHandle, ClosedHandle} : cap' = h
  /\ sessHandle' = IF sessHandle = "held" THEN "replaced" ELSE sessHandle
  /\ UNCHANGED <<stop_flag, start_recording, stop_recording, is_recording, final_video_path,
       final_timestamps_path, temp_video_path, temp_timestamps_path, temp_base, writer,
       ts_file, frame_number, elapsed, fs, clock, statuses, wpc, wstate, opc, sess, okReads,
       moved, hadPath, setPhase, forced, rmFailed, stopsDone, lateReads, endPhase, slept,
       lastOverrun, limits>>

(* ------------------------- observer: stop() ---------------------------- *)

\* line 46: self.stop_flag = True
S46 ==
  /\ AtMain /\ stopsDone < limits.stops
  /\ stop_flag' = TRUE
  /\ forced' = IF InRec THEN forced \cup {sess} ELSE forced
  /\ opc' = "s47"
  /\ UNCHANGED <<start_recording, stop_recording, is_recording, cap, final_video_path,
       final_timestamps_path, temp_video_path, temp_timestamps_path, temp_base, writer,
       ts_file, frame_number, elapsed, fs, clock, statuses, wpc, wstate, sess, okReads, moved,
       hadPath, setPhase, rmFailed, stopsDone, lateReads, sessHandle, endPhase, slept,
       lastOverrun, limits>>

\* lines 47-48: self.stop_recording = True; time.sleep(1.0)
S47 ==
  /\ opc = "s47"
  /\ stop_recording' = TRUE
  /\ lateReads' = IF stop_recording THEN lateReads ELSE 0
  /\ endPhase' = "forced"
  /\ opc' = "s49"
  /\ UNCHANGED <<stop_flag, start_recording, is_recording, cap, final_video_path,
       final_timestamps_path, temp_video_path, temp_timestamps_path, temp_base, writer,
       ts_file, frame_number, elapsed, fs, clock, statuses, wpc, wstate, sess, okReads, moved,
       hadPath, setPhase, forced, rmFailed, stopsDone, sessHandle, slept, lastOverrun, limits>>

\* line 49, first operand: if self.cap
S49 ==
  /\ opc = "s49"
  /\ opc' = IF cap # None THEN "s49b" ELSE "s51"
  /\ UNCHANGED <<stop_flag, start_recording, stop_recording, is_recording, cap,
       final_video_path, final_timestamps_path, temp_video_path, temp_timestamps_path,
       temp_base, writer, ts_file, frame_number, elapsed, fs, clock, statuses, wpc, wstate,
       sess, okReads, moved, hadPath, setPhase, forced, rmFailed, stopsDone, lateReads,
       sessHandle, endPhase, slept, lastOverrun, limits>>

\* line 49, second operand: self.cap.isOpened(); self.cap is read again, and
\* an AttributeError on None leaves stop()
S49b ==
  /\ opc = "s49b"
  /\ opc' = IF cap = None THEN "main" ELSE IF cap = OpenHandle THEN "s50" ELSE "s51"
  /\ UNCHANGED <<stop_flag, start_recording, stop_recording, is_recording, cap,
       final_video_path, final_timestamps_path, temp_video_path, temp_timestamps_path,
       temp_base, writer, ts_file, frame_number, elapsed, fs, clock, statuses, wpc, wstate,
       sess, okReads, moved, hadPath, setPhase, forced, rmFailed, stopsDone, lateReads,
       sessHandle, endPhase, slept, lastOverrun, limits>>

\* line 50: self.cap.release(), on the caller's thread
S50 ==
  /\ opc = "s50"
  /\ IF cap = None
     THEN opc' = "main" /\ cap' = cap /\ sessHandle' = sessHandle
     ELSE /\ opc' = "s51" /\ cap' = ClosedHandle
          /\ sessHandle' = IF sessHandle = "held" THEN "none" ELSE sessHandle
  /\ UNCHANGED <<stop_flag, start_recording, stop_recording, is_recording, final_video_path,
       final_timestamps_path, temp_video_path, temp_timestamps_path, temp_base, writer,
       ts_file, frame_number, elapsed, fs, clock, statuses, wpc, wstate, sess, okReads, moved,
       hadPath, setPhase, forced, rmFailed, stopsDone, lateReads, endPhase, slept, lastOverrun,
       limits>>

\* line 51: self.terminate().  A worker that is inside the shutil.move of
\* line 120 or 122 is ended with whatever the move had done by then
S51 ==
  /\ opc = "s51"
  /\ wstate' = Terminate(wstate)
  /\ fs' \in IF Running /\ wpc = "w120"
             THEN FailedMoveOutcomes(fs, temp_video_path, final_video_path)
             ELSE IF Running /\ wpc = "w122"
             THEN FailedMoveOutcomes(fs, temp_timestamps_path, final_timestamps_path)
             ELSE {fs}
  /\ opc' = "s52v"
  /\ UNCHANGED <<stop_flag, start_recording, stop_recording, is_recording, cap,
       final_video_path, final_timestamps_path, temp_video_path, temp_timestamps_path,
       temp_base, writer, ts_file, frame_number, elapsed, clock, statuses, wpc, sess, okReads,
       moved, hadPath, setPhase, forced, rmFailed, stopsDone, lateReads, sessHandle, endPhase,
       slept, lastOverrun, limits>>

\* lines 53-57 for one working path: os.remove if it exists; a failure is swallowed
RemoveIfExists(p, ok) ==
  IF p # EmptyPath /\ fs[p] # NoFile
  THEN IF ok THEN fs' = RemoveFile(fs, p) /\ rmFailed' = rmFailed
             ELSE fs' = fs /\ rmFailed' = rmFailed \cup {p}
  ELSE fs' = fs /\ rmFailed' = rmFailed

\* variant of S52v: os.remove outside try/except, a failure leaves stop()
S52vRaising ==
  /\ opc = "s52v"
  /\ \E ok \in BOOLEAN :
       /\ RemoveIfExists(temp_video_path, ok)
       /\ opc' = IF rmFailed' # rmFailed THEN "main" ELSE "s52t"
  /\ UNCHANGED <<stop_flag, start_recording, stop_recording, is_recording, cap,
       final_video_path, final_timestamps_path, temp_video_path, temp_timestamps_path,
       temp_base, writer, ts_file, frame_number, elapsed, clock, statuses, wpc, wstate, sess,
       okReads, moved, hadPath, setPhase, forced, stopsDone, lateReads, sessHandle, endPhase,
       slept, lastOverrun, limits>>

\* lines 52-57, f = self.temp_video_path
S52v ==
  /\ opc = "s52v"
  /\ \E ok \in BOOLEAN : RemoveIfExists(temp_video_path, ok)
  /\ opc' = "s52t"
  /\ UNCHANGED <<stop_flag, start_recording, stop_recording, is_recording, cap,
       final_video_path, final_timestamps_path, temp_video_path, temp_timestamps_path,
       temp_base, writer, ts_file, frame_number, elapsed, clock, statuses, wpc, wstate, sess,
       okReads, moved, hadPath, setPhase, forced, stopsDone, lateReads, sessHandle, endPhase,
       slept, lastOverrun, limits>>

\* lines 52-58, f = self.temp_timestamps_path; stop() returns
S52t ==
  /\ opc = "s52t"
  /\ \E ok \in BOOLEAN : RemoveIfExists(temp_timestamps_path, ok)
  /\ stopsDone' = stopsDone + 1
  /\ opc' = "main"
  /\ UNCHANGED <<stop_flag, start_recording, stop_recording, is_recording, cap,
       final_video_path, final_timestamps_path, temp_video_path, temp_timestamps_path,
       temp_base, writer, ts_file, frame_number, elapsed, clock, statuses, wpc, wstate, sess,
       okReads, moved, hadPath, setPhase, forced, lateReads, sessHandle, endPhase, slept,
       lastOverrun, limits>>

Worker ==
  \/ W61 \/ W63 \/ W64 \/ W65 \/ W67 \/ W68 \/ W70 \/ W73 \/ W75 \/ W81 \/ W85
  \/ W92 \/ W94 \/ W97 \/ W104 \/ W105 \/ W106 \/ W114 \/ W115 \/ W116
  \/ W119 \/ W120 \/ W121 \/ W122 \/ W124 \/ W127 \/ W128

\* the observer's field writes and set_capture, without stop()
ObserverNoStop ==
  \/ SetStartRecording \/ SetStopRecording \/ SetFinalVideoPath
  \/ SetFinalTimestampsPath \/ set_capture

ObserverStop == S46 \/ S47 \/ S49 \/ S49b \/ S50 \/ S51 \/ S52v \/ S52t

Observer == ObserverNoStop \/ ObserverStop

Next == Worker \/ Observer

\* runs in which stop() is never called
NextNormal == Worker \/ ObserverNoStop

Spec == Init /\ [][Next]_vars
SpecNormal == Init /\ [][NextNormal]_vars
SpecForced == InitForced /\ [][Next]_vars
SpecRepeat == InitRepeat /\ [][Next]_vars
SpecSession == InitSession /\ [][NextNormal]_vars
SpecSequence == InitSequence /\ [][NextNormal]_vars
SpecPacing == InitPacing /\ [][NextNormal]_vars
SpecLongSession == InitLongSession /\ [][NextNormal]_vars

\* run() executes on its own thread, which the scheduler keeps running: a step
\* of the worker that stays possible is eventually taken
SpecNormalFair == SpecNormal /\ WF_vars(Worker)

(* ------------------------------ claims --------------------------------- *)
Last(s) == s[Len(s)]

\* the artifacts on disk that session s wrote
VideoOf(s) == {p \in Paths : fs[p].kind = "avi" /\ fs[p].sess = s}
IndexOf(s) == {p \in Paths : fs[p].kind = "csv" /\ fs[p].sess = s}

\* rows is the header followed by the frame numbers 0, 1, ... in order
Contiguous(rows) ==
  \A i \in 1..Len(rows) :
    IF i = 1 THEN rows[i] = HeaderRow
             ELSE rows[i].kind = "row" /\ rows[i].frame_number = i - 2

\* the 'recording saved' status has just been emitted and no stop() has begun
SavedJustEmitted == wpc = "w127" /\ ~stop_flag

\* C1: when a session in which exactly N reads succeeded ends by normal stop,
\* then at the moment 'recording saved' is emitted the status reports N, the
\* video of the session holds N frames and its index holds the header plus N rows.
C1_SavedCountsExact ==
  SavedJustEmitted =>
    /\ Last(statuses) = SavedStatus(okReads, sess)
    /\ Cardinality(VideoOf(sess)) = 1
    /\ \A p \in VideoOf(sess) : fs[p].frames = okReads
    /\ Cardinality(IndexOf(sess)) = 1
    /\ \A p \in IndexOf(sess) : Len(fs[p].rows) = okReads + 1 /\ fs[p].rows[1] = HeaderRow

\* a long session, whose index went to the disk in more than one piece, has
\* been saved with every frame the device gave
C1_Witness ==
  /\ SavedJustEmitted /\ okReads = limits.frames /\ limits.first > 0
  /\ Last(statuses) = SavedStatus(limits.frames, sess)

\* in every session the rows written to the index, those on disk followed by
\* those still pending in the open file, are the header and the frame numbers
\* 0, 1, ..., N-1 in order, N being the number of successful reads so far
C2_IndexContiguous ==
  /\ \A p \in Paths : fs[p].kind = "csv" => Contiguous(fs[p].rows)
  /\ ts_file.path # EmptyPath =>
       /\ Contiguous(fs[ts_file.path].rows \o ts_file.buf)
       /\ Len(fs[ts_file.path].rows) + Len(ts_file.buf) = okReads + 1
       /\ frame_number = okReads

FailedRead == wpc = "w97" /\ wpc' = "w104" /\ okReads' = okReads

C2_FailedReadKeeps ==
  FailedRead => /\ frame_number' = frame_number
                /\ ts_file' = ts_file
                /\ fs' = fs
                /\ is_recording' = is_recording
                /\ wstate' = wstate

\* C2: the index holds the frame numbers 0..N-1 in order at every moment, and
\* a failed read changes neither the index, the video, frame_number nor the
\* recording state.
C2_FrameNumbers == [](C2_IndexContiguous) /\ [][C2_FailedReadKeeps]_vars

\* a session with as many successful reads as the device gives is recording
\* with a part of its index on disk and the rest pending in the open file
C2_Witness ==
  /\ wstate = "running" /\ wpc = "w104" /\ okReads = limits.frames
  /\ ts_file.path # EmptyPath
  /\ fs[ts_file.path].rows # <<>> /\ ts_file.buf # <<>>

\* C3: a begin-request processed while the handle is absent or closed emits
\* 'unavailable' and the controller is never recording during the attempt.
C3_FailedStartStaysIdle ==
  /\ wpc \in {"w68", "w70"} => ~is_recording
  /\ wpc = "w70" => Last(statuses) = UnavailableStatus(sess)

\* both final-path fields were last assigned while the session was recording
BothSetInRec == setPhase.video = "rec" /\ setPhase.ts = "rec"

\* the finalization of a session that was not stopped by stop() is over: the
\* worker is past lines 119-122, or a move that raised has ended it
NormalStopFinalized ==
  /\ sess >= 1 /\ ~stop_flag
  /\ wpc = "w124" \/ wstate = "dead"

\* C4: final paths both assigned while the session was recording are consumed
\* by that session: once its finalization is over both artifacts are at the
\* final paths and the working files are gone; and a final-path field that has
\* not been assigned since the worker last cleared it is empty, so no later
\* session moves anything to it.
C4_FinalPathsConsumedOnce ==
  /\ (NormalStopFinalized /\ BothSetInRec) =>
       /\ final_video_path \in VideoOf(sess)
       /\ final_timestamps_path \in IndexOf(sess)
       /\ fs[final_video_path].frames = okReads
       /\ Len(fs[final_timestamps_path].rows) = okReads + 1
       /\ fs[temp_video_path] = NoFile
       /\ fs[temp_timestamps_path] = NoFile
  /\ setPhase.video = "none" => final_video_path = EmptyPath /\ wpc # "w120"
  /\ setPhase.ts = "none" => final_timestamps_path = EmptyPath /\ wpc # "w122"

\* a session has just ended by normal stop and the worker is back at its loop head
BackInIdle ==
  /\ wstate = "running" /\ wpc = "w61" /\ ~stop_flag /\ ~is_recording
  /\ statuses # <<>> /\ Last(statuses).kind = "saved" /\ Last(statuses).sess = sess

\* C5: when a session ends by normal stop with no final path set, its working
\* video and timestamp files are gone once the controller is back in Idle.
C5_WorkingFilesDiscarded ==
  (BackInIdle /\ ~hadPath.video /\ ~hadPath.ts) =>
    /\ fs[temp_video_path] = NoFile
    /\ fs[temp_timestamps_path] = NoFile
    /\ \A p \in FinalPaths : fs[p] = NoFile \/ fs[p].sess # sess

\* stop() has run to its end at least once and the observer is outside stop()
StopCompleted == stopsDone >= 1 /\ opc = "main"

\* C6: after a completed stop(), whenever it was called, no working artifact
\* of any session is left on disk (even when every deletion it tried succeeded).
C6_NoWorkingArtifactLeft ==
  (StopCompleted /\ rmFailed = {}) => \A p \in TempPaths : fs[p] = NoFile

\* C7 as claimed: a session that was recording when stop() was called is never
\* finalized: no 'recording saved' status is emitted for it and none of its
\* artifacts reaches a final path.
C7_ForcedNeverFinalized ==
  /\ \A i \in 1..Len(statuses) : statuses[i].kind = "saved" => statuses[i].sess \notin forced
  /\ \A p \in FinalPaths : fs[p] # NoFile => fs[p].sess \notin forced

\* the worker was terminated by stop() inside the session that stop() interrupted
KilledInForcedSession == StopCompleted /\ wstate = "terminated" /\ sess \in forced

\* C7 as amended: a session that was recording when stop() was called is
\* finalized only as far as the worker got before stop() terminated it: an
\* artifact the worker had not moved and was not moving when it was terminated
\* is at no final path and stop() has removed it from its working path unless
\* that deletion failed, and no 'recording saved' status exists for the
\* session unless the worker had emitted it.
C7_ForcedStopCleansUnmoved ==
  KilledInForcedSession =>
    /\ (~moved.video /\ wpc # "w120") =>
         /\ \A p \in FinalPaths : p \notin VideoOf(sess)
         /\ fs[temp_video_path] = NoFile \/ temp_video_path \in rmFailed
    /\ (~moved.ts /\ wpc # "w122") =>
         /\ \A p \in FinalPaths : p \notin IndexOf(sess)
         /\ fs[temp_timestamps_path] = NoFile \/ temp_timestamps_path \in rmFailed
    /\ wpc \notin {"w127", "w128", "w61"} =>
         \A i \in 1..Len(statuses) : ~(statuses[i].kind = "saved" /\ statuses[i].sess = sess)

C7_Witness ==
  /\ KilledInForcedSession /\ wpc = "w97" /\ okReads >= 1
  /\ final_video_path # EmptyPath /\ final_timestamps_path # EmptyPath
  /\ rmFailed = {}

\* once a stop() has completed, no step starts a session, emits a status,
\* creates a file, or changes the worker, the recording state or stop_flag
C8_Step ==
  stopsDone >= 1 =>
    /\ statuses' = statuses
    /\ sess' = sess
    /\ wstate' = wstate /\ wpc' = wpc
    /\ wstate # "running"
    /\ is_recording' = is_recording
    /\ stop_flag' = stop_flag
    /\ fs' = fs \/ \A p \in Paths : fs[p] = NoFile => fs'[p] = NoFile

\* a step of stop() called again after a stop() has completed
RepeatedStopStep == stopsDone >= 1 /\ opc' # opc

\* a repeated stop() changes nothing of the controller
C8_RepeatedStopNoOp ==
  RepeatedStopStep =>
    /\ UNCHANGED <<stop_flag, start_recording, stop_recording, is_recording, cap>>
    /\ UNCHANGED <<final_video_path, final_timestamps_path>>
    /\ UNCHANGED <<temp_video_path, temp_timestamps_path>>
    /\ UNCHANGED <<fs, statuses, wstate, wpc>>

\* C8 as claimed: Terminated is absorbing: once a stop() has completed no later
\* step starts a session, creates a file, emits a status or changes the
\* worker or the recording state, and a repeated stop() is a no-op.
C8_AbsorbingAndNoOp == [][C8_Step /\ C8_RepeatedStopNoOp]_vars

\* what a repeated stop() does change: it sets the end-request again (line
\* 47), releases an open handle supplied since (line 50) and deletes a working
\* file that is still there (lines 52-57); nothing else
C8_RepeatedStopEffects ==
  RepeatedStopStep =>
    /\ UNCHANGED <<stop_flag, start_recording, is_recording>>
    /\ UNCHANGED <<final_video_path, final_timestamps_path>>
    /\ UNCHANGED <<temp_video_path, temp_timestamps_path>>
    /\ UNCHANGED <<statuses, wstate, wpc, writer, ts_file, frame_number>>
    /\ stop_recording' # stop_recording => (opc = "s47" /\ stop_recording')
    /\ cap' # cap => (opc = "s50" /\ cap = OpenHandle /\ cap' = ClosedHandle)
    /\ \/ fs' = fs
       \/ opc = "s52v" /\ fs' = RemoveFile(fs, temp_video_path)
       \/ opc = "s52t" /\ fs' = RemoveFile(fs, temp_timestamps_path)

\* C8 as amended: Terminated is absorbing: every step taken after a completed
\* stop() satisfies C8_Step, whatever the observer does; a repeated stop()
\* is not a no-op but changes only the end-request flag, an open handle
\* supplied since and the two working files.
C8_TerminatedAbsorbing == [][C8_Step /\ C8_RepeatedStopEffects]_vars

\* after two completed stop() calls the observer has supplied an open handle,
\* a begin-request and a final path are pending, and the worker stays terminated
C8_Witness ==
  /\ stopsDone = 2 /\ opc = "main" /\ wstate = "terminated"
  /\ start_recording /\ cap = OpenHandle /\ final_video_path # EmptyPath

\* C9: once a session uses the handle, only the worker thread releases it: the
\* observer thread, stop() included, never releases the handle while the worker
\* is running inside a session that reads from it and will release it.
C9_ObserverRelease == opc = "s50" /\ opc' = "s51" /\ cap = OpenHandle /\ cap' = ClosedHandle

WorkerUsesHandle ==
  /\ wstate = "running"
  /\ wpc \in {"w73", "w75", "w81", "w85", "w92", "w94", "w97", "w104", "w105", "w106", "w114"}

C9_Step == C9_ObserverRelease => ~WorkerUsesHandle

\* C9: no step of the observer thread releases the handle while the worker
\* is running inside a session that uses it.
C9_OnlyWorkerTouchesHandle == [][C9_Step]_vars

\* C10: a failing move during finalization does not end the worker thread.
C10_MoveFailureSwallowed == wstate # "dead"


\* an end-request is pending while the session is in its recording loop
EndRequestedInRec ==
  /\ wstate = "running"
  /\ wpc \in {"w94", "w97", "w104"}
  /\ is_recording /\ stop_recording

\* C11: an end-request set while a session is recording takes effect within one
\* loop tick: the worker reads the device at most once more after the flag
\* was set, and with the worker scheduled fairly the controller is eventually
\* back in Idle with 'recording saved' emitted for the session.
C11_AtMostOneLateRead == lateReads <= 1

C11_EndRequestWithinOneTick ==
  /\ [](C11_AtMostOneLateRead)
  /\ EndRequestedInRec ~> BackInIdle

\* C12: at the end of every session that ends by normal stop the handle the
\* session used has been released and the controller's field holds no handle:
\* the release of line 114 acts on the handle the session started with and
\* line 115 leaves the field None; the controller never opens a handle itself,
\* and a session starts only with an open handle, so a begin-request without
\* a newly supplied open handle starts no session.
C12_Step ==
  /\ (wpc = "w114" /\ wpc' = "w115" /\ ~stop_flag) => sessHandle = "held"
  /\ (wpc = "w115" /\ wpc' = "w116") => cap' = None
  /\ (cap # OpenHandle /\ cap' = OpenHandle) => (opc = "main" /\ wpc' = wpc /\ wstate' = wstate)
  /\ (wpc = "w67" /\ wpc' = "w73") => cap = OpenHandle

C12_HandleReleasedAtSessionEnd == [][C12_Step]_vars

\* the files open for writing are those of the current session
C13_OpenWritersOfSession ==
  wstate = "running" =>
    /\ writer # EmptyPath => fs[writer].kind = "avi" /\ fs[writer].sess = sess
    /\ ts_file.path # EmptyPath => fs[ts_file.path].kind = "csv" /\ fs[ts_file.path].sess = sess
    /\ (writer # EmptyPath \/ ts_file.path # EmptyPath) => wpc \in {"w85", "w92", "w94", "w97", "w104", "w105", "w106", "w114", "w115", "w116"}

\* a session begins only at line 64, with no writer open and no session unfinished;
\* the begin-request is cleared only there
C13_Step ==
  /\ sess' # sess =>
       /\ wpc = "w64" /\ sess' = sess + 1
       /\ writer = EmptyPath /\ ts_file = ClosedTsFile
       /\ ~is_recording
       /\ statuses = <<>> \/ Last(statuses).kind # "started"
  /\ (start_recording /\ ~start_recording') => (wpc = "w64" /\ wpc' = "w65")

\* C13: sessions never overlap: the only files open for writing are those of
\* the current session, and a begin-request set while a session is recording
\* stays set and starts the next session only after the current one has closed
\* its writers and emitted 'recording saved'.
C13_SessionsNeverOverlap == [](C13_OpenWritersOfSession) /\ [][C13_Step]_vars

\* a begin-request is pending while the first session has emitted 'recording
\* saved' and is still clearing its final paths
C13_Witness ==
  /\ sess = 1 /\ wpc = "w127" /\ start_recording
  /\ Last(statuses).kind = "saved"

\* the session's video, respectively its index, is at a final path
VideoAtFinal == \E p \in FinalPaths : p \in VideoOf(sess)
IndexAtFinal == \E p \in FinalPaths : p \in IndexOf(sess)

\* the session is over: 'recording saved' has just been emitted, or the worker
\* was ended by a failed move or by stop()
SessionOver ==
  /\ sess >= 1
  /\ \/ wstate = "running" /\ wpc = "w127"
     \/ wstate \in {"dead", "terminated"}

\* the observer has assigned both final-path fields
BothFinalPathsWritten == setPhase.video # "none" /\ setPhase.ts # "none"

\* C14: whatever the interleaving of the observer's two final-path writes with
\* the worker's end-of-session steps, and wherever a forced stop or a move
\* failure occurs, a session is never over with exactly one of its video and
\* its index at a final path.
C14_FinalizationAllOrNothing ==
  (SessionOver /\ BothFinalPathsWritten) => (VideoAtFinal <=> IndexAtFinal)

\* C15: an end-request set while the controller is idle has no effect on later
\* sessions: a session leaves its recording loop through line 105 only on an
\* end-request that was set during the session or by stop().
C15_StaleEndRequestIgnored == (wstate = "running" /\ wpc = "w105") => endPhase # "idle"

\* a step of the worker on the path of a failed start attempt (lines 64-71)
FailedStartStep ==
  /\ wstate = "running"
  /\ \/ wpc = "w64" /\ wpc' = "w65"
     \/ wpc = "w65" /\ wpc' = "w67"
     \/ wpc = "w67" /\ wpc' = "w68"
     \/ wpc = "w68" /\ wpc' = "w70"
     \/ wpc = "w70" /\ wpc' = "w61"

C16_Step ==
  /\ FailedStartStep =>
       /\ UNCHANGED <<final_video_path, final_timestamps_path>>
       /\ UNCHANGED <<temp_video_path, temp_timestamps_path>>
       /\ UNCHANGED <<stop_recording, cap, fs>>
  /\ (wpc = "w64" /\ wpc' = "w65") => ~start_recording'
  /\ (wpc = "w70" /\ wpc' = "w61") => ~is_recording'

\* a final path the observer has assigned stays in its field until a session
\* that started has cleared it
C16_PendingPathsKept ==
  /\ setPhase.video # "none" => final_video_path # EmptyPath
  /\ setPhase.ts # "none" => final_timestamps_path # EmptyPath

\* C16: a failed start attempt consumes the begin-request and changes nothing
\* else: no step of it changes the final-path fields, the working-path fields,
\* the end-request flag, the handle field or any file, so final paths assigned
\* before the attempt are still pending afterwards.
C16_FailedStartChangesNothing == [](C16_PendingPathsKept) /\ [][C16_Step]_vars

\* the first attempt failed and the second session has moved both artifacts to
\* final paths that were assigned outside its recording loop
C16_Witness ==
  /\ sess = 2 /\ wpc = "w124"
  /\ statuses[1].kind = "unavailable"
  /\ setPhase.video = "other" /\ setPhase.ts = "other"
  /\ VideoAtFinal /\ IndexAtFinal

\* the statuses 'started' and 'saved' among the first n emitted, in order
RECURSIVE SessionEvents(_)
SessionEvents(n) ==
  IF n = 0 THEN <<>>
  ELSE IF statuses[n].kind = "unavailable" THEN SessionEvents(n - 1)
       ELSE Append(SessionEvents(n - 1), statuses[n])

\* 'started' and 'saved' alternate, beginning with 'started', and each 'saved'
\* is that of the session whose 'started' precedes it
Alternating(ev) ==
  \A i \in 1..Len(ev) :
    IF i % 2 = 1 THEN ev[i].kind = "started"
                 ELSE ev[i].kind = "saved" /\ ev[i].sess = ev[i - 1].sess

\* no 'unavailable' directly follows a 'started'
NoUnavailableInsideSession ==
  \A i \in 2..Len(statuses) :
    statuses[i].kind = "unavailable" => statuses[i - 1].kind # "started"

\* C17: in every execution 'recording started' and 'recording saved' strictly
\* alternate, beginning with 'started', every 'saved' following the 'started'
\* of its own session, and 'unavailable' is never emitted between a 'started'
\* and its 'saved'.
C17_StatusesWellOrdered ==
  /\ Alternating(SessionEvents(Len(statuses)))
  /\ NoUnavailableInsideSession

\* a full session has been saved and the second session has started
C17_Witness ==
  /\ Len(statuses) = 3
  /\ statuses[1].kind = "started" /\ statuses[2].kind = "saved"
  /\ statuses[3].kind = "started" /\ statuses[3].sess = 2

\* a deletion in stop() has failed and the observer is outside stop()
DeletionFailed == rmFailed # {} /\ opc = "main"

\* C18: stop() completes despite deletion failures: when the deletion of one
\* working artifact fails, stop() has still tried the other one (it is gone,
\* or its deletion failed too), has returned normally, and the worker thread
\* is ended.
C18_StopCompletesDespiteFailures ==
  DeletionFailed =>
    /\ stopsDone >= 1
    /\ wstate # "running"
    /\ \/ temp_timestamps_path = EmptyPath
       \/ fs[temp_timestamps_path] = NoFile
       \/ temp_timestamps_path \in rmFailed
    /\ \/ fs[temp_video_path] = NoFile
       \/ temp_video_path \in rmFailed

\* the deletion of the video failed, the index was deleted all the same
C18_Witness ==
  /\ DeletionFailed /\ stopsDone = 1 /\ wstate = "terminated"
  /\ rmFailed = {temp_video_path}
  /\ wpc = "w97" /\ fs[temp_timestamps_path] = NoFile

\* one iteration of the worker's loop with no session active and no
\* begin-request seen: line 61, then line 63 into the sleep of lines 130-131
IdleTickStep ==
  /\ wstate = "running"
  /\ \/ wpc = "w61" /\ wpc' = "w63"
     \/ wpc = "w63" /\ wpc' = "w61"

C19_Step ==
  IdleTickStep =>
    /\ UNCHANGED <<cap, fs, writer, ts_file, statuses>>
    /\ UNCHANGED <<stop_flag, start_recording, stop_recording, is_recording>>
    /\ UNCHANGED <<final_video_path, final_timestamps_path>>
    /\ UNCHANGED <<temp_video_path, temp_timestamps_path>>

\* C19: an idle tick performs no I/O: a loop iteration of the worker with no
\* session active and no begin-request pending leaves the handle, every file,
\* the statuses, every request flag and every path field unchanged.
C19_IdleTickNoIO == [][C19_Step]_vars

\* the worker idles after a saved session while an open handle, an
\* end-request and a final path are there
C19_Witness ==
  /\ wstate = "running" /\ wpc = "w63" /\ ~start_recording
  /\ sess = 1 /\ Last(statuses).kind = "saved"
  /\ cap = OpenHandle /\ stop_recording /\ final_video_path # EmptyPath

Max0(x) == IF x > 0 THEN x ELSE 0

\* a loop iteration that does not end the session completes with its pacing sleep
PacedIteration == wstate = "running" /\ wpc = "w104" /\ wpc' = "w94"

C20_Step ==
  PacedIteration =>
    /\ slept' = Max0(frame_interval - elapsed)
    /\ elapsed > frame_interval => slept' = 0

\* C20: pacing is per iteration and memoryless: every loop iteration that does
\* not end the session sleeps max(0, period - elapsed), elapsed being the time
\* since that iteration's own start; an iteration that overruns sleeps zero,
\* and whether the iteration before overran changes nothing.
C20_PacingMemoryless == [][C20_Step]_vars

\* the iteration after an overrun took less than the period and slept the rest
C20_Witness ==
  /\ wstate = "running" /\ wpc = "w94"
  /\ lastOverrun /\ elapsed = 1 /\ slept = frame_interval - 1
====
